---- MODULE Spec2Model ----
(***************************************************************************)
(* mdbook-file-search: the preprocessor's run (src/main.rs).               *)
(*                                                                         *)
(* FileSearch::run loads the alias records of the configuration into a     *)
(* FileCache (add_file), mirrors the registered files into                 *)
(* <root>/src/_files (copy_files), then rewrites every {{#find alias}}     *)
(* placeholder of every chapter (Regex::replace_all + get_insert_text).    *)
(*                                                                         *)
(* Strings are sequences of one-character strings, so that the regex scan, *)
(* Path::file_name and format! are computed character by character.        *)
(***************************************************************************)
EXTENDS Naturals, Sequences, FiniteSets

VARIABLES
    pc,             \* position in run: load, mkdir, copy, rewrite, done, error
    nread,          \* records of the `files` array read so far in this run
    alias_to_path,  \* FileCache.alias_to_path
    alias_to_type,  \* FileCache.alias_to_type
    todo,           \* aliases the loop of copy_files has not visited yet
    src,            \* the external files: path -> file
    out,            \* <root>/src/_files: [exists, files: name -> file]
    now,            \* the file system's clock
    book,           \* the book as run holds it (<<>> until it is traversed)
    book0,          \* the book as it was handed to run
    result,         \* what run returned: running, ok, err
    lastOk,         \* history: alias -> its last successful registration
    ioFailed,       \* history: copy_files met an I/O failure
    failTodo,       \* history: todo at the moment of that failure
    outAtStart      \* history: out when copy_files was entered

vars == <<pc, nread, alias_to_path, alias_to_type, todo, src, out, now, book,
          book0, result, lastOk, ioFailed, failTodo, outAtStart>>

----------------------------------------------------------------------------
(* Bounds of the model.                                                     *)

MaxRecords == 2     \* records in the configuration's `files` array
MaxTime0 == 2       \* initial modification times range over 1..MaxTime0
MaxChunks == 4      \* chunks a generated chapter is made of

----------------------------------------------------------------------------
(* Strings.                                                                 *)

None == <<>>

RECURSIVE Flatten(_)
Flatten(ss) == IF ss = <<>> THEN <<>> ELSE Head(ss) \o Flatten(Tail(ss))

HasAt(s, i, t) ==
    /\ i + Len(t) - 1 <= Len(s)
    /\ \A k \in 1..Len(t) : s[i + k - 1] = t[k]

Lower == {"a","b","c","d","e","f","g","h","i","j","k","l","m",
          "n","o","p","q","r","s","t","u","v","w","x","y","z"}
Upper == {"A","B","C","D","E","F","G","H","I","J","K","L","M",
          "N","O","P","Q","R","S","T","U","V","W","X","Y","Z"}
Digit == {"0","1","2","3","4","5","6","7","8","9"}

\* One non-ASCII letter (U+00E9) and one non-ASCII space (U+00A0), each a
\* single character of the text.
EAcute == "U+00E9"
Nbsp == "U+00A0"

\* the blank only
IsBlank(c) == c = " "

\* regex `\s`: Unicode White_Space (the regex crate is Unicode-aware by default)
IsSpace(c) == c \in {" ", "\t", "\n", "\r", Nbsp}

\* regex `[\d\w]`: Unicode word characters and decimal digits
IsWord(c) == c \in Lower \cup Upper \cup Digit \cup {"_", EAcute}

----------------------------------------------------------------------------
(* Paths: PathBuf::from(&str) and Path::file_name.                          *)

RECURSIVE Split(_, _, _)
\* the components of s between '/' separators; cur is the one being read
Split(s, cur, acc) ==
    IF s = <<>> THEN Append(acc, cur)
    ELSE IF Head(s) = "/" THEN Split(Tail(s), <<>>, Append(acc, cur))
    ELSE Split(Tail(s), Append(cur, Head(s)), acc)

\* Path::components drops empty components and `.`
Components(path) ==
    SelectSeq(Split(path, <<>>, <<>>), LAMBDA c : c # <<>> /\ c # <<".">>)

\* Path::file_name: the last component unless the path is empty, a root or
\* ends in `..`
FileName(path) ==
    LET cs == Components(path) IN
    IF cs = <<>> THEN None
    ELSE IF cs[Len(cs)] = <<".", ".">> THEN None
    ELSE cs[Len(cs)]

PathPX == <<"/", "p", "/", "x">>
PathQX == <<"/", "q", "/", "x">>
PathPY == <<"/", "p", "/", "y">>
PathRoot == <<"/">>

FilePaths == {PathPX, PathQX, PathPY}
Paths == FilePaths \cup {PathRoot}
Names == {FileName(p) : p \in FilePaths}

AliasA == <<"a">>
AliasB == <<"b">>

----------------------------------------------------------------------------
(* FileType and its conversion.                                             *)

TypeStrings == {"link", "image", "pdf"}

FileTypeTryFrom(value) ==
    CASE value = "image" -> [ok |-> TRUE, val |-> "Image"]
      [] value = "link" -> [ok |-> TRUE, val |-> "Link"]
      [] OTHER -> [ok |-> FALSE, val |-> "FileTypeConversionFailed"]

----------------------------------------------------------------------------
(* HashMap insert.                                                          *)

\* keeps the first value of a key
InsertIfAbsent(m, k, v) ==
    [x \in DOMAIN m \cup {k} |-> IF x \in DOMAIN m THEN m[x] ELSE v]

Insert(m, k, v) == [x \in DOMAIN m \cup {k} |-> IF x = k THEN v ELSE m[x]]

EmptyMap == [x \in {} |-> None]

----------------------------------------------------------------------------
(* The file system.                                                         *)

NoData == [from |-> None, ver |-> 0]
Absent == [ex |-> FALSE, mtime |-> 0, data |-> NoData]
File(m, d) == [ex |-> TRUE, mtime |-> m, data |-> d]

\* a file left in the cache directory by something else than this run
Stale == [from |-> None, ver |-> 1]

SrcFile(p) == IF p \in DOMAIN src THEN src[p] ELSE Absent

----------------------------------------------------------------------------
(* FileCache.                                                               *)

LinkPrefix == <<".", "/", "_", "f", "i", "l", "e", "s", "/">>

get_link_path(alias) ==
    IF alias \in DOMAIN alias_to_path
    THEN LET filename == FileName(alias_to_path[alias]) IN
         IF filename = None THEN None ELSE LinkPrefix \o filename
    ELSE None

ImageLabel == <<"!", "[", "I", "m", "a", "g", "e", " ", "n", "o", "t", " ",
                "f", "o", "u", "n", "d", "]">>

FormatInsert(file_type, alias, link) ==
    IF file_type = "Link"
    THEN <<"[">> \o alias \o <<"]", "(">> \o link \o <<")">>
    ELSE ImageLabel \o <<"(">> \o link \o <<")">>

get_insert_text(alias) ==
    LET link == get_link_path(alias) IN
    IF link # None /\ alias \in DOMAIN alias_to_type
    THEN FormatInsert(alias_to_type[alias], alias, link)
    ELSE None

\* add_file: the path is inserted before the kind is converted
add_file(paths, types, alias, path, file_type) ==
    LET newPaths == Insert(paths, alias, path)
        conv == FileTypeTryFrom(file_type)
    IN  IF conv.ok
        THEN [ok |-> TRUE, paths |-> newPaths,
              types |-> Insert(types, alias, conv.val)]
        ELSE [ok |-> FALSE, paths |-> newPaths, types |-> types]

----------------------------------------------------------------------------
(* copy_files, one entry of its loop.                                       *)

\* copies whenever the destination is not newer
ShouldCopyNotNewer(dst, source) ==
    IF dst.ex THEN dst.mtime <= source.mtime ELSE TRUE

\* copies only when the destination is missing
ShouldCopyMissingOnly(dst, source) == ~dst.ex

\* the comparison the other way round
ShouldCopyInverted(dst, source) ==
    IF dst.ex THEN dst.mtime > source.mtime ELSE TRUE

ShouldCopy(dst, source) ==
    IF dst.ex THEN dst.mtime < source.mtime ELSE TRUE

\* fs::copy leaves the destination with the time of the write, or with the
\* source's modification time where the platform's copy preserves it
CopiedMtimes(source, clock) == {clock, source.mtime}

\* The outcome of one iteration for `path` on the cache directory's `files`:
\* ioOk is whether the file system calls it makes succeed, m the modification
\* time a copy leaves.
CopyOne(files, path, ioOk, m) ==
    LET file_name == FileName(path) IN
    IF file_name = None THEN [ok |-> TRUE, files |-> files]
    ELSE LET source == SrcFile(path)
             dst == files[file_name]
         IN  IF ~source.ex \/ ~ioOk THEN [ok |-> FALSE, files |-> files]
             ELSE IF ShouldCopy(dst, source)
             THEN [ok |-> TRUE,
                   files |-> [files EXCEPT ![file_name] = File(m, source.data)]]
             ELSE [ok |-> TRUE, files |-> files]

\* the loop goes on with no entry left
RemainingNone(entries, alias) == {}

Remaining(entries, alias) == entries \ {alias}

\* an error is ignored
PropagateIgnored(ok, next) == next

\* the `?` of copy_files and of run: an error ends the run, success goes on
\* at `next`
Propagate(ok, next) == IF ok THEN next ELSE "error"

RECURSIVE SyncAll(_, _, _)
\* the whole loop of copy_files over `entries` in one fixed order, every call
\* succeeding, a copy leaving the clock's time (policy "clock") or the
\* source's (policy "preserve")
SyncAll(entries, files, policy) ==
    IF entries = {} THEN files
    ELSE LET alias == CHOOSE a \in entries : TRUE
             path == alias_to_path[alias]
             m == IF policy = "clock" THEN now ELSE SrcFile(path).mtime
         IN  SyncAll(Remaining(entries, alias),
                     CopyOne(files, path, TRUE, m).files, policy)

----------------------------------------------------------------------------
(* The rewriter: Regex::replace_all with \{\{\#find\s([\d\w]+)\}\}.         *)

Open == <<"{", "{", "#", "f", "i", "n", "d">>
Close == <<"}", "}">>
Unknown == <<"u", "n", "k", "n", "o", "w", "n">>

RECURSIVE WordRunEnd(_, _)
\* the index of the last character of the longest run of word characters
\* that starts at i (i - 1 when there is none)
WordRunEnd(s, i) ==
    IF i <= Len(s) /\ IsWord(s[i]) THEN WordRunEnd(s, i + 1) ELSE i - 1

\* the index of the last character of the match that starts at i, 0 when
\* no match starts there
MatchEnd(s, i) ==
    IF HasAt(s, i, Open) /\ i + 7 <= Len(s) /\ IsSpace(s[i + 7])
    THEN LET w == WordRunEnd(s, i + 8) IN
         IF w >= i + 8 /\ HasAt(s, w + 1, Close) THEN w + 2 ELSE 0
    ELSE 0

\* the fallback is the empty text
InsertOrEmpty(alias) == get_insert_text(alias)

\* the closure given to replace_all
InsertOrUnknown(alias) ==
    LET text == get_insert_text(alias) IN
    IF text = None THEN Unknown ELSE text

RECURSIVE ReplaceFrom(_, _)
\* leftmost, non-overlapping matches, the inserted text not scanned again
ReplaceFrom(s, i) ==
    IF i > Len(s) THEN <<>>
    ELSE LET e == MatchEnd(s, i) IN
         IF e > 0
         THEN InsertOrUnknown(SubSeq(s, i + 8, e - 2)) \o ReplaceFrom(s, e + 1)
         ELSE <<s[i]>> \o ReplaceFrom(s, i + 1)

ReplaceAll(s) == ReplaceFrom(s, 1)

Chapter(text) == [kind |-> "Chapter", content |-> text]
Separator == [kind |-> "Separator", content |-> <<>>]

\* Book::for_each_mut: every item in traversal order, chapters rewritten
RewriteBook(b) ==
    [i \in 1..Len(b) |->
        IF b[i].kind = "Chapter"
        THEN [b[i] EXCEPT !.content = ReplaceAll(@)]
        ELSE b[i]]

----------------------------------------------------------------------------
(* Inputs.                                                                  *)

Record(alias, path, type, complete) ==
    [alias |-> alias, path |-> path, type |-> type, complete |-> complete]

\* the records of the runs that exercise the cache directory
SyncRecords ==
    {Record(a, p, t, TRUE) : a \in {AliasA, AliasB}, p \in Paths,
                             t \in {"link", "pdf"}}
    \cup {Record(AliasA, PathPX, "link", FALSE)}

\* the records of the runs that exercise the rewriter
RewriteRecords ==
    {Record(AliasA, p, t, TRUE) : p \in {PathPX, PathRoot}, t \in TypeStrings}
    \cup {Record(AliasA, PathPX, "link", FALSE)}

OpenSp == Open \o <<" ">>
OpenTab == Open \o <<"\t">>
Chunks == {OpenSp, OpenTab, <<"a">>, <<EAcute>>, Close}

Texts == {Flatten(cs) : cs \in UNION {[1..n -> Chunks] : n \in 0..MaxChunks}}

\* "See {{#find a}} for {{#find b}}."
SeeText ==
    <<"S", "e", "e", " ">> \o OpenSp \o <<"a">> \o Close \o <<" ", "f", "o", "r", " ">>
    \o OpenSp \o <<"b">> \o Close \o <<".">>

\* "{{#find a-b}}"
DashText == OpenSp \o <<"a", "-", "b">> \o Close

\* "{{#find {{#find b}}}}"
NestedText == OpenSp \o OpenSp \o <<"b">> \o Close \o Close

SampleBooks ==
    {<<Chapter(SeeText), Separator, Chapter(DashText), Chapter(NestedText)>>}

\* a generated chapter, then "{{#find b}}"
GeneratedBooks ==
    {<<Chapter(t), Separator, Chapter(OpenSp \o <<"b">> \o Close)>> : t \in Texts}

----------------------------------------------------------------------------
(* Initial states.                                                          *)

NoFiles == [n \in Names |-> Absent]

InitRun ==
    /\ pc = "load"
    /\ nread = 0
    /\ alias_to_path = EmptyMap
    /\ alias_to_type = EmptyMap
    /\ todo = {}
    /\ book = <<>>
    /\ book0 = <<>>
    /\ result = "running"
    /\ lastOk = EmptyMap
    /\ ioFailed = FALSE
    /\ failTodo = {}
    /\ outAtStart = out

\* any external files, none dated after the clock (the files were written
\* before the run, under the same clock), and any cache directory
Init ==
    /\ \E mt \in [FilePaths -> 0..MaxTime0] :
          src = [p \in FilePaths |->
                    IF mt[p] = 0 THEN Absent
                    ELSE File(mt[p], [from |-> p, ver |-> 1])]
    /\ \/ out = [exists |-> FALSE, files |-> NoFiles]
       \/ \E mt \in [Names -> 0..MaxTime0] :
             out = [exists |-> TRUE,
                    files |-> [n \in Names |->
                                  IF mt[n] = 0 THEN Absent
                                  ELSE File(mt[n], Stale)]]
    /\ now = MaxTime0
    /\ InitRun

\* every external file present and just written, no cache directory yet
InitRewrite ==
    /\ src = [p \in FilePaths |-> File(MaxTime0, [from |-> p, ver |-> 1])]
    /\ out = [exists |-> FALSE, files |-> NoFiles]
    /\ now = MaxTime0
    /\ InitRun

----------------------------------------------------------------------------
(* FileSearch::run, step by step.                                           *)

\* one record of the `files` array: skipped when a key is missing,
\* registered otherwise
LoadRecord(r) ==
    /\ pc = "load"
    /\ nread < MaxRecords
    /\ nread' = nread + 1
    /\ IF ~r.complete
       THEN UNCHANGED <<pc, alias_to_path, alias_to_type, result, lastOk>>
       ELSE LET res == add_file(alias_to_path, alias_to_type,
                                r.alias, r.path, r.type)
            IN  /\ alias_to_path' = res.paths
                /\ alias_to_type' = res.types
                /\ pc' = Propagate(res.ok, "load")
                /\ result' = IF pc' = "error" THEN "err" ELSE result
                /\ lastOk' = IF res.ok
                             THEN [a \in DOMAIN lastOk \cup {r.alias} |->
                                      IF a = r.alias
                                      THEN [path |-> r.path, type |-> r.type]
                                      ELSE lastOk[a]]
                             ELSE lastOk
    /\ UNCHANGED <<todo, src, out, now, book, book0, ioFailed, failTodo,
                   outAtStart>>

\* the end of the `files` array
LoadDone ==
    /\ pc = "load"
    /\ pc' = "mkdir"
    /\ UNCHANGED <<nread, alias_to_path, alias_to_type, todo, src, out, now,
                   book, book0, result, lastOk, ioFailed, failTodo, outAtStart>>

\* copy_files, before its loop: the cache directory is created when missing
CopyBegin ==
    /\ pc = "mkdir"
    /\ \E ioOk \in (IF out.exists THEN {TRUE} ELSE BOOLEAN) :
          /\ pc' = Propagate(ioOk, "copy")
          /\ out' = IF ioOk THEN [out EXCEPT !.exists = TRUE] ELSE out
          /\ ioFailed' = ~ioOk
    /\ todo' = DOMAIN alias_to_path
    /\ failTodo' = IF ioFailed' THEN todo' ELSE failTodo
    /\ outAtStart' = out
    /\ result' = IF pc' = "error" THEN "err" ELSE result
    /\ UNCHANGED <<nread, alias_to_path, alias_to_type, src, now, book, book0,
                   lastOk>>

\* one iteration of the loop of copy_files, over the entries in any order
CopyEntry ==
    /\ pc = "copy"
    /\ \E alias \in todo, ioOk \in BOOLEAN :
          \E m \in CopiedMtimes(SrcFile(alias_to_path[alias]), now) :
             LET res == CopyOne(out.files, alias_to_path[alias], ioOk, m) IN
             /\ out' = [out EXCEPT !.files = res.files]
             /\ pc' = Propagate(res.ok, "copy")
             /\ todo' = Remaining(todo, alias)
             /\ ioFailed' = (ioFailed \/ ~res.ok)
             /\ failTodo' = IF ~res.ok /\ ~ioFailed THEN todo' ELSE failTodo
    /\ result' = IF pc' = "error" THEN "err" ELSE result
    /\ UNCHANGED <<nread, alias_to_path, alias_to_type, src, now, book, book0,
                   lastOk, outAtStart>>

\* copy_files returns Ok
CopyDone ==
    /\ pc = "copy"
    /\ todo = {}
    /\ pc' = "rewrite"
    /\ UNCHANGED <<nread, alias_to_path, alias_to_type, todo, src, out, now,
                   book, book0, result, lastOk, ioFailed, failTodo, outAtStart>>

\* the traversal of the book handed to run, one of `books`, and run's return
Rewrite(books) ==
    /\ pc = "rewrite"
    /\ \E b \in books :
          /\ book0' = b
          /\ book' = RewriteBook(b)
    /\ pc' = "done"
    /\ result' = "ok"
    /\ UNCHANGED <<nread, alias_to_path, alias_to_type, todo, src, out, now,
                   lastOk, ioFailed, failTodo, outAtStart>>

----------------------------------------------------------------------------
(* Specifications.                                                          *)

\* one run over any external files and cache directory
Next ==
    \/ \E r \in SyncRecords : LoadRecord(r)
    \/ LoadDone
    \/ CopyBegin
    \/ CopyEntry
    \/ CopyDone
    \/ Rewrite(SampleBooks)

Spec == Init /\ [][Next]_vars

\* one run over generated chapter texts
NextRewrite ==
    \/ \E r \in RewriteRecords : LoadRecord(r)
    \/ LoadDone
    \/ CopyBegin
    \/ CopyEntry
    \/ CopyDone
    \/ Rewrite(GeneratedBooks \cup SampleBooks)

SpecRewrite == InitRewrite /\ [][NextRewrite]_vars

----------------------------------------------------------------------------
(* Properties of the cache directory (specification Spec).                  *)

Entries == DOMAIN alias_to_path
PathOf(alias) == alias_to_path[alias]
Dest(alias) == out.files[FileName(PathOf(alias))]
DestAtStart(alias) == outAtStart.files[FileName(PathOf(alias))]
Synced == pc = "rewrite"

C2_ContentEqualsSource ==
    Synced =>
        \A a \in Entries :
            SrcFile(PathOf(a)).ex =>
                Dest(a).ex /\ Dest(a).data = SrcFile(PathOf(a)).data

\* no other entry with another source path has the base name of a's
SoleName(a) ==
    \A b \in Entries :
        FileName(PathOf(b)) = FileName(PathOf(a)) => PathOf(b) = PathOf(a)

\* C2, amended: when copy_files has returned Ok, the cached file of an entry
\* whose source exists holds the source's content, provided no entry with
\* another source path shares the base name and the cache directory held,
\* before the run, no file of that name or one strictly older than the source.
C2_ContentEqualsSourceIfCopied ==
    Synced =>
        \A a \in Entries :
            (/\ SrcFile(PathOf(a)).ex
             /\ SoleName(a)
             /\ \/ ~DestAtStart(a).ex
                \/ DestAtStart(a).mtime < SrcFile(PathOf(a)).mtime)
            => Dest(a).ex /\ Dest(a).data = SrcFile(PathOf(a)).data

\* a stale older file of the cache directory replaced by the source's content
C2_Witness ==
    /\ Synced
    /\ \E a \in Entries :
          /\ SrcFile(PathOf(a)).ex
          /\ SoleName(a)
          /\ DestAtStart(a).ex
          /\ DestAtStart(a).data = Stale
          /\ DestAtStart(a).mtime < SrcFile(PathOf(a)).mtime
          /\ Dest(a).data = SrcFile(PathOf(a)).data

C5_FailedAddFileChangesNothing ==
    [][(pc = "load" /\ pc' = "error")
        => (alias_to_path' = alias_to_path /\ alias_to_type' = alias_to_type)]_vars

\* C8: an I/O failure in copy_files ends the run in error at once: no further
\* entry is visited and no book is traversed or returned; the book is
\* traversed only when every entry has been visited without a failure.
C8_FailureStopsRun ==
    /\ ioFailed =>
          /\ pc = "error"
          /\ result = "err"
          /\ todo = failTodo
          /\ book = <<>>
    /\ pc \in {"rewrite", "done"} =>
          /\ ~ioFailed
          /\ todo = {}
          /\ \A a \in Entries :
                FileName(PathOf(a)) # None => SrcFile(PathOf(a)).ex

\* a failure on the first entry visited, the other left unvisited
C8_Witness ==
    /\ ioFailed
    /\ Cardinality(Entries) = 2
    /\ Cardinality(failTodo) = 1
    /\ \E a \in Entries \ failTodo : ~SrcFile(PathOf(a)).ex

Contents(files) == [n \in Names |-> [ex |-> files[n].ex, data |-> files[n].data]]

\* C10, as claimed: the files and contents of the cache directory after a
\* successful copy_files are those of the loop run in a fixed order, whatever
\* order the entries were visited in.
C10_OrderIndependent ==
    Synced =>
        Contents(out.files) \in
            {Contents(SyncAll(Entries, outAtStart.files, policy)) :
                policy \in {"clock", "preserve"}}

NoCollision == \A a \in Entries : FileName(PathOf(a)) # None => SoleName(a)

\* C10, amended: the same, provided no two entries with different source
\* paths share a base name.
C10_OrderIndependentNoCollision ==
    (Synced /\ NoCollision) =>
        Contents(out.files) = Contents(SyncAll(Entries, outAtStart.files, "clock"))

\* two entries with different base names, both copied
C10_Witness ==
    /\ Synced
    /\ NoCollision
    /\ \E a, b \in Entries :
          /\ FileName(PathOf(a)) # None
          /\ FileName(PathOf(b)) # None
          /\ FileName(PathOf(a)) # FileName(PathOf(b))
          /\ Dest(a) # DestAtStart(a)
          /\ Dest(b) # DestAtStart(b)

----------------------------------------------------------------------------
(* Properties of the rewriter (specification SpecRewrite).                  *)

\* t is `{{#find`, one character of `spaces`, one or more characters of
\* `words`, `}}`
IsPlaceholder(t, spaces, words) ==
    /\ Len(t) >= 11
    /\ SubSeq(t, 1, 7) = <<"{", "{", "#", "f", "i", "n", "d">>
    /\ t[8] \in spaces
    /\ \A k \in 9..(Len(t) - 2) : t[k] \in words
    /\ SubSeq(t, Len(t) - 1, Len(t)) = <<"}", "}">>

\* the end of the placeholder of s that starts at i, 0 when there is none
PlaceholderEnd(s, i, spaces, words) ==
    IF i + 10 <= Len(s) /\ s[i] = "{"
    THEN LET js == {j \in (i + 10)..Len(s) :
                       s[j] = "}" /\ IsPlaceholder(SubSeq(s, i, j), spaces, words)}
         IN  IF js = {} THEN 0 ELSE CHOOSE j \in js : TRUE
    ELSE 0

\* the aliases of the placeholders of s
PlaceholderAliases(s, spaces, words) ==
    {SubSeq(s, i + 8, PlaceholderEnd(s, i, spaces, words) - 2) :
        i \in {k \in 1..Len(s) : PlaceholderEnd(s, k, spaces, words) > 0}}

RECURSIVE Splice(_, _, _, _, _)
\* s from i on, each placeholder replaced by rep[its alias], the rest kept
Splice(s, i, spaces, words, rep) ==
    IF i > Len(s) THEN <<>>
    ELSE LET j == PlaceholderEnd(s, i, spaces, words) IN
         IF j > 0
         THEN rep[SubSeq(s, i + 8, j - 2)] \o Splice(s, j + 1, spaces, words, rep)
         ELSE <<s[i]>> \o Splice(s, i + 1, spaces, words, rep)

AsciiWords == Lower \cup Upper \cup Digit \cup {"_"}
Blank == {" "}
AnySpace == {" ", "\t", "\n", "\r", Nbsp}
AnyWords == AsciiWords \cup {EAcute}

ChapterIndexes == {i \in 1..Len(book0) : book0[i].kind = "Chapter"}
Returned == pc = "done"

\* C4, as claimed: rewriting a rewritten chapter again changes nothing.
C4_RewriteIdempotent ==
    Returned => \A i \in ChapterIndexes : ReplaceAll(book[i].content) = book[i].content

\* the text of a link and of an image, as the claim gives them
LinkText(alias, name) ==
    <<"[">> \o alias \o <<"]", "(", ".", "/", "_", "f", "i", "l", "e", "s", "/">>
    \o name \o <<")">>
ImageText(name) ==
    <<"!", "[", "I", "m", "a", "g", "e", " ", "n", "o", "t", " ", "f", "o", "u",
      "n", "d", "]", "(", ".", "/", "_", "f", "i", "l", "e", "s", "/">>
    \o name \o <<")">>

Registered == {a \in DOMAIN lastOk : FileName(lastOk[a].path) # None}
RegisteredText(a) ==
    IF lastOk[a].type = "link" THEN LinkText(a, FileName(lastOk[a].path))
    ELSE ImageText(FileName(lastOk[a].path))

\* C6: once the records are loaded, get_insert_text of an alias whose last
\* successful registration has a path with a file name F and the kind link
\* is `[alias](./_files/F)`, and `![Image not found](./_files/F)` for the kind
\* image; the returned chapters are the received ones with each placeholder
\* of such an alias replaced by that text and the other text kept.
C6_RegisteredAliasText ==
    /\ pc \in {"mkdir", "copy", "rewrite", "done"} =>
          \A a \in Registered : get_insert_text(a) = RegisteredText(a)
    /\ Returned =>
          \A i \in ChapterIndexes :
             LET s == book0[i].content IN
             book[i].content =
                Splice(s, 1, AnySpace, AnyWords,
                       [a \in PlaceholderAliases(s, AnySpace, AnyWords) |->
                           IF a \in Registered THEN RegisteredText(a)
                           ELSE InsertOrUnknown(a)])

\* an alias registered twice, the second time as an image, and a chapter
\* that is its placeholder after one character
C6_Witness ==
    /\ Returned
    /\ nread = 2
    /\ AliasA \in Registered
    /\ lastOk[AliasA].type = "image"
    /\ book0[1].content = <<"a">> \o OpenSp \o <<"a">> \o Close
    /\ book[1].content = <<"a">> \o ImageText(<<"x">>)

\* C7: a placeholder whose alias is in no record gets None from
\* get_insert_text and is replaced, delimiters included, by `unknown`; run
\* returns Ok and the other placeholders of all chapters are rewritten too.
C7_UnknownAlias ==
    Returned =>
        /\ result = "ok"
        /\ \A i \in ChapterIndexes :
              LET s == book0[i].content
                  aliases == PlaceholderAliases(s, AnySpace, AnyWords)
              IN  /\ \A a \in aliases \ DOMAIN lastOk : get_insert_text(a) = None
                  /\ book[i].content =
                        Splice(s, 1, AnySpace, AnyWords,
                               [a \in aliases |->
                                   IF a \notin DOMAIN lastOk
                                   THEN <<"u", "n", "k", "n", "o", "w", "n">>
                                   ELSE InsertOrUnknown(a)])

\* "See [a](./_files/x) for unknown."
SeeRewritten ==
    <<"S", "e", "e", " ">> \o LinkText(AliasA, <<"x">>) \o <<" ", "f", "o", "r", " ">>
    \o <<"u", "n", "k", "n", "o", "w", "n", ".">>

\* an unregistered alias beside a registered one in the first chapter, and
\* more placeholders in the chapters after it
C7_Witness ==
    /\ Returned
    /\ book0 \in SampleBooks
    /\ book[1].content = SeeRewritten
    /\ book[3].content = DashText
    /\ book[4].content = OpenSp \o <<"u", "n", "k", "n", "o", "w", "n">> \o Close

\* C9, as claimed: the returned chapters are the received ones with exactly
\* the spans `{{#find `, one or more of [A-Za-z0-9_], `}}` replaced.
C9_AsciiGrammar ==
    Returned =>
        \A i \in ChapterIndexes :
           LET s == book0[i].content IN
           book[i].content =
              Splice(s, 1, Blank, AsciiWords,
                     [a \in PlaceholderAliases(s, Blank, AsciiWords) |->
                         InsertOrUnknown(a)])

\* C9, amended: the returned chapters are the received ones with exactly
\* the spans `{{#find`, one white-space character (a space, a tab, a line
\* break, a non-ASCII space), one or more word characters (letters and
\* digits of any script, `_`), `}}` replaced.
C9_UnicodeGrammar ==
    Returned =>
        \A i \in ChapterIndexes :
           LET s == book0[i].content IN
           book[i].content =
              Splice(s, 1, AnySpace, AnyWords,
                     [a \in PlaceholderAliases(s, AnySpace, AnyWords) |->
                         InsertOrUnknown(a)])

\* a tab after `find` and a non-ASCII letter in the alias, replaced
C9_Witness ==
    /\ Returned
    /\ book0[1].content = OpenTab \o <<EAcute, "a">> \o Close
    /\ book[1].content = <<"u", "n", "k", "n", "o", "w", "n">>

====
